---- MODULE Spec2Model ----
(***************************************************************************)
(* KwikFlip: the marketplace token cache, the listing fetcher with its     *)
(* synthetic fallback, the flip ledger (a CSV file rewritten on every      *)
(* save) and the profit calculator, modelled from src/app.py and the       *)
(* alternate implementations under src/src/.                               *)
(*                                                                         *)
(* Money is in integer cents, fee rates in thousandths, products of the    *)
(* two in thousandths of a cent; time is in seconds.                       *)
(***************************************************************************)
EXTENDS Integers, Sequences, FiniteSets, TLC

VARIABLES
    EBAY_APP_ID,        \* src/app.py:35, read once from the environment
    EBAY_CERT_ID,       \* src/app.py:36
    ebay_oauth_token,   \* st.session_state.ebay_oauth_token
    ebay_token_expiry,  \* st.session_state.ebay_token_expiry
    now,                \* time.time()
    said,               \* what the marketplace said about the cached token
    lastAuth,           \* the latest token call, when it was ensure_oauth_token
    lastExchange,       \* the get_ebay_oauth_token call that the latest token call made
    lastFetch,          \* the last fetch_items call
    flipsFile,          \* data/flips.csv
    lastSave,           \* the last sequential save_flip call
    pc,                 \* concurrent savers: position of each session
    df,                 \* concurrent savers: the frame each session loaded
    flip,               \* concurrent savers: the record each session saves
    saved,              \* concurrent savers: what save_flip returned
    stored0,            \* concurrent savers: the file when the saves began
    calc,               \* the last profit calculation
    stats,              \* the last calculate_stats call
    filter_settings,    \* st.session_state.filter_settings
    recent_searches,    \* st.session_state.recent_searches
    session,            \* which program runs the session, and its clock
    lastSubmit,         \* the last submitted search
    lastLoad,           \* the last load_flips call
    api,                \* the last call on an EbayAPI object or request builder
    rec,                \* the last get_recommended_platform call
    debug_info          \* st.session_state.debug_info

tokenVars == <<EBAY_APP_ID, EBAY_CERT_ID, ebay_oauth_token, ebay_token_expiry,
               now, said, lastAuth, lastExchange, lastFetch>>
ledgerVars == <<flipsFile, lastSave>>
concVars == <<pc, df, flip, saved, stored0>>
calcVars == <<calc>>
searchVars == <<recent_searches, session, lastSubmit>>
auxVars == <<lastLoad, api, rec, debug_info>>
uiVars == <<stats, filter_settings, searchVars, auxVars>>
vars == <<tokenVars, ledgerVars, concVars, calcVars, uiVars>>

-----------------------------------------------------------------------------
(* Python values *)

None == "None"          \* Python None, JSON null
Missing == "Missing"    \* a key that the JSON object does not hold

Truthy(x) == x # None /\ x # ""

PyMin(a, b) == IF b < a THEN b ELSE a

-----------------------------------------------------------------------------
(* Bounds of the model *)

MaxTime == 400
MaxLimit == 2
MaxRecords == 2

TickSteps == {100}
CredValues == {None, "", "id"}
AccessTokenValues == {Missing, None, "t1", "t2"}
ExpiresInValues == {300, 500}
WatcherSamples == {0, 20}           \* ends of random.randint(0, 20)
Limits == 0 .. MaxLimit

-----------------------------------------------------------------------------
(* The marketplace's answers *)

\* What requests.post to the token endpoint can produce.
TokenResponses ==
    {[kind |-> "raise", status |-> 0, json |-> "none",
      access_token |-> Missing, expires_in |-> 0, has_expires_in |-> FALSE]}
    \cup {[kind |-> "http", status |-> 500, json |-> "none",
           access_token |-> Missing, expires_in |-> 0, has_expires_in |-> FALSE]}
    \cup {[kind |-> "http", status |-> 200, json |-> "invalid",
           access_token |-> Missing, expires_in |-> 0, has_expires_in |-> FALSE]}
    \cup {[kind |-> "http", status |-> 200, json |-> "object",
           access_token |-> a, expires_in |-> 0, has_expires_in |-> FALSE]
          : a \in AccessTokenValues}
    \cup {[kind |-> "http", status |-> 200, json |-> "object",
           access_token |-> a, expires_in |-> e, has_expires_in |-> TRUE]
          : a \in AccessTokenValues, e \in ExpiresInValues}

\* A record of itemSummaries / itemSales: one that converts to an Item, or one
\* on which the conversion raises (a non-object, a non-numeric price value).
RawRecords ==
    {[convertible |-> FALSE, itemId |-> 0, title |-> "", watchCount |-> 0],
     [convertible |-> TRUE, itemId |-> 1, title |-> "Vintage Camera", watchCount |-> 0],
     [convertible |-> TRUE, itemId |-> 2, title |-> "Digital Camera", watchCount |-> 7]}

RECURSIVE SeqsUpTo(_, _)
SeqsUpTo(S, n) ==
    IF n = 0 THEN {<<>>}
    ELSE LET shorter == SeqsUpTo(S, n - 1)
         IN  shorter \cup {Append(s, x) : s \in {q \in shorter : Len(q) = n - 1}, x \in S}

\* What requests.get to a search endpoint can produce. items_kind tells what the
\* body holds under itemSummaries / itemSales: nothing, a value that cannot be
\* iterated, or a list.
SearchResponses ==
    {[kind |-> "raise", status |-> 0, json |-> "none", items_kind |-> "absent", items |-> <<>>],
     [kind |-> "http", status |-> 500, json |-> "none", items_kind |-> "absent", items |-> <<>>],
     [kind |-> "http", status |-> 200, json |-> "invalid", items_kind |-> "absent", items |-> <<>>],
     [kind |-> "http", status |-> 200, json |-> "not_object", items_kind |-> "absent", items |-> <<>>],
     [kind |-> "http", status |-> 200, json |-> "object", items_kind |-> "absent", items |-> <<>>],
     [kind |-> "http", status |-> 200, json |-> "object", items_kind |-> "not_iterable", items |-> <<>>]}
    \cup {[kind |-> "http", status |-> 200, json |-> "object", items_kind |-> "list", items |-> s]
          : s \in SeqsUpTo(RawRecords, MaxRecords)}

-----------------------------------------------------------------------------
(* Credentials and the token cache *)

check_ebay_credentials(app, cert) ==
    LET has_app_id == app # None /\ app # ""
        has_cert_id == cert # None /\ cert # ""
    IN  has_app_id /\ has_cert_id

oauth_try_no_margin(app, cert, tok, exp, t, resp) ==
    IF ~Truthy(app) \/ ~Truthy(cert)
    THEN [tok |-> tok, exp |-> exp, raised |-> FALSE, posted |-> FALSE,
          token |-> None, error |-> "Missing eBay credentials"]
    ELSE IF resp.kind = "http" /\ resp.status = 200 /\ resp.json = "object"
            /\ resp.access_token # Missing /\ resp.has_expires_in
    THEN [tok |-> resp.access_token, exp |-> t + resp.expires_in,
          raised |-> FALSE, posted |-> TRUE,
          token |-> resp.access_token, error |-> None]
    ELSE [tok |-> tok, exp |-> exp, raised |-> FALSE, posted |-> TRUE,
          token |-> None, error |-> "Failed to get OAuth token: HTTP"]

\* The try block of get_ebay_oauth_token: the cache after it, what it returns,
\* and whether it left by an exception. Line 373 stores the token before line
\* 374 reads expires_in.
oauth_try(app, cert, tok, exp, t, resp) ==
    IF ~Truthy(app) \/ ~Truthy(cert)
    THEN [tok |-> tok, exp |-> exp, raised |-> FALSE, posted |-> FALSE,
          token |-> None, error |-> "Missing eBay credentials"]
    ELSE IF resp.kind = "raise"
    THEN [tok |-> tok, exp |-> exp, raised |-> TRUE, posted |-> TRUE,
          token |-> None, error |-> None]
    ELSE IF resp.status = 200
    THEN IF resp.json # "object" \/ resp.access_token = Missing
         THEN [tok |-> tok, exp |-> exp, raised |-> TRUE, posted |-> TRUE,
               token |-> None, error |-> None]
         ELSE IF ~resp.has_expires_in
         THEN [tok |-> resp.access_token, exp |-> exp, raised |-> TRUE, posted |-> TRUE,
               token |-> None, error |-> None]
         ELSE [tok |-> resp.access_token, exp |-> t + resp.expires_in - 300,
               raised |-> FALSE, posted |-> TRUE,
               token |-> resp.access_token, error |-> None]
    ELSE [tok |-> tok, exp |-> exp, raised |-> FALSE, posted |-> TRUE,
          token |-> None, error |-> "Failed to get OAuth token: HTTP"]

get_ebay_oauth_token(app, cert, tok, exp, t, resp) ==
    LET body == oauth_try(app, cert, tok, exp, t, resp)
    IN  IF body.raised
        THEN [body EXCEPT !.raised = FALSE, !.token = None,
                          !.error = "Error getting OAuth token"]
        ELSE body

ensure_oauth_token_late(app, cert, tok, exp, t, resp) ==
    IF Truthy(tok) /\ t <= exp
    THEN [tok |-> tok, exp |-> exp, raised |-> FALSE, posted |-> FALSE,
          token |-> tok, error |-> None, exchanges |-> 0]
    ELSE [exchanges |-> 1] @@ get_ebay_oauth_token(app, cert, tok, exp, t, resp)

ensure_oauth_token(app, cert, tok, exp, t, resp) ==
    IF Truthy(tok) /\ t < exp
    THEN [tok |-> tok, exp |-> exp, raised |-> FALSE, posted |-> FALSE,
          token |-> tok, error |-> None, exchanges |-> 0]
    ELSE [exchanges |-> 1] @@ get_ebay_oauth_token(app, cert, tok, exp, t, resp)

\* What the marketplace said about the token that the cache holds after an
\* exchange: the instant it expires (the time of the exchange + expires_in),
\* when the answer that brought the token gave one.
SaidAfter(old, x, t, resp) ==
    LET brought == x.posted /\ resp.kind = "http" /\ resp.status = 200
                   /\ resp.json = "object" /\ resp.access_token # Missing
    IN  IF brought /\ resp.has_expires_in
        THEN [known |-> TRUE, at |-> t + resp.expires_in]
        ELSE IF brought
        THEN [known |-> FALSE, at |-> 0]
        ELSE old

-----------------------------------------------------------------------------
(* The listing fetcher *)

NoItems == <<>>

RealItem(raw, sold) ==
    [id |-> [prefix |-> "v1|", n |-> raw.itemId],
     title |-> raw.title,
     watchers |-> IF sold THEN 0 ELSE raw.watchCount,
     sold |-> sold]

convert_items_all_or_nothing(items_list, sold) ==
    IF \E i \in 1 .. Len(items_list) : ~items_list[i].convertible THEN <<>>
    ELSE [i \in 1 .. Len(items_list) |-> RealItem(items_list[i], sold)]

\* Lines 544-591: the records that convert, in response order; a record on
\* which the conversion raises is logged and skipped.
RECURSIVE convert_items(_, _)
convert_items(items_list, sold) ==
    IF items_list = <<>> THEN <<>>
    ELSE LET item == Head(items_list)
             rest == convert_items(Tail(items_list), sold)
         IN  IF item.convertible THEN <<RealItem(item, sold)>> \o rest ELSE rest

\* The try block of search_ebay_browse. is_none tells that the first element
\* of the returned pair is None.
search_try(app, cert, tok, exp, t, sold, limit, tokResp, resp) ==
    LET auth == ensure_oauth_token(app, cert, tok, exp, t, tokResp)
        sent == [auth |-> auth, requested |-> TRUE, request_limit |-> PyMin(limit, 200)]
    IN  IF ~Truthy(auth.token)
        THEN [auth |-> auth, requested |-> FALSE, request_limit |-> 0, raised |-> FALSE,
              is_none |-> TRUE, items |-> NoItems,
              error |-> "Failed to authenticate with eBay"]
        ELSE IF resp.kind = "raise"
        THEN sent @@ [raised |-> TRUE, is_none |-> TRUE, items |-> NoItems, error |-> None]
        ELSE IF resp.status # 200
        THEN sent @@ [raised |-> FALSE, is_none |-> TRUE, items |-> NoItems,
                      error |-> "eBay Browse API returned status code"]
        ELSE IF resp.json # "object"
        THEN sent @@ [raised |-> TRUE, is_none |-> TRUE, items |-> NoItems, error |-> None]
        ELSE IF resp.items_kind = "not_iterable"
        THEN sent @@ [raised |-> TRUE, is_none |-> TRUE, items |-> NoItems, error |-> None]
        ELSE IF resp.items_kind = "absent" \/ resp.items = <<>>
        THEN sent @@ [raised |-> FALSE, is_none |-> FALSE, items |-> NoItems,
                      error |-> "No items found matching your search criteria"]
        ELSE sent @@ [raised |-> FALSE, is_none |-> FALSE,
                      items |-> convert_items(resp.items, sold), error |-> None]

search_ebay_browse(app, cert, tok, exp, t, sold, limit, tokResp, resp) ==
    LET body == search_try(app, cert, tok, exp, t, sold, limit, tokResp, resp)
    IN  IF body.raised
        THEN [body EXCEPT !.raised = FALSE, !.is_none = TRUE, !.items = NoItems,
                          !.error = "Error calling eBay Browse API"]
        ELSE body

\* generate_mock_items: count items; w[i] is what random.randint(0, 20) gave
\* for item i.
generate_mock_items(count, sold, w) ==
    [i \in 1 .. count |->
        [id |-> [prefix |-> "mock-", n |-> i - 1],
         title |-> "Mock Item - Demo Product",
         watchers |-> w[i], sold |-> sold]]

\* fetch_items: the pair it returns, and the cache as it leaves it. No path
\* leaves by an exception for a count that range() accepts: the search and the
\* generator are each inside a try of their own.
fetch_items(app, cert, tok, exp, t, sold, limit, tokResp, resp, w) ==
    LET has_credentials == check_ebay_credentials(app, cert)
        found == search_ebay_browse(app, cert, tok, exp, t, sold, limit, tokResp, resp)
        mock_items == generate_mock_items(limit, sold, w)
    IN  IF has_credentials /\ ~found.is_none
        THEN [searched |-> TRUE, tok |-> found.auth.tok, exp |-> found.auth.exp,
              raised |-> FALSE, mocked |-> FALSE, items |-> found.items, error |-> None]
        ELSE IF has_credentials
        THEN [searched |-> TRUE, tok |-> found.auth.tok, exp |-> found.auth.exp,
              raised |-> FALSE, mocked |-> TRUE, items |-> mock_items, error |-> None]
        ELSE [searched |-> FALSE, tok |-> tok, exp |-> exp,
              raised |-> FALSE, mocked |-> TRUE, items |-> mock_items, error |-> None]

\* How the marketplace answered a fetch, told from the answers alone.
Upstream(app, cert, auth, resp) ==
    IF ~check_ebay_credentials(app, cert) THEN "no_credentials"
    ELSE IF ~Truthy(auth.token) THEN "token_failure"
    ELSE IF resp.kind = "raise" THEN "transport"
    ELSE IF resp.status # 200 THEN "status"
    ELSE IF resp.json # "object" \/ resp.items_kind = "not_iterable" THEN "malformed_body"
    ELSE IF resp.items_kind = "absent" \/ resp.items = <<>> THEN "no_results"
    ELSE IF \A i \in 1 .. Len(resp.items) : ~resp.items[i].convertible
    THEN "malformed_records"
    ELSE IF \E i \in 1 .. Len(resp.items) : ~resp.items[i].convertible
    THEN "some_malformed_records"
    ELSE "ok"

-----------------------------------------------------------------------------
(* The flip ledger: data/flips.csv, read whole and rewritten whole by every save *)

\* A cell value of a pandas frame: a str, a number (kept by its repr) or NaN.
Str(s) == [kind |-> "str", text |-> s]
Num(s) == [kind |-> "num", text |-> s]
NaN == [kind |-> "nan", text |-> ""]

Columns == {"timestamp", "title", "cost", "notes"}

\* What the calculator's form can hand to save_flip (src/app.py:1561-1577).
FlipRecords ==
    [title : {Str("lamp"), Str("007")}, cost : {Num("0.0"), Num("5.0")},
     notes : {Str(""), Str("ok")}]

NumericTexts == {"007", "7", "7.0", "0.0", "5.0"}
IntTexts == {"007", "7"}

IntText(t) == IF t = "007" THEN "7" ELSE t
FloatText(t) == IF t \in IntTexts THEN "7.0" ELSE t

\* DataFrame.to_csv: a str is written as it is, a number by its repr, NaN as
\* the empty field.
to_csv(frame) ==
    [i \in 1 .. Len(frame) |-> [c \in Columns |-> frame[i][c].text]]

\* pandas.read_csv: an empty field is NaN; a column whose other fields are all
\* numbers is a column of numbers (int64 when no field is empty and none has a
\* decimal point, float64 otherwise); any other column holds its fields as str.
read_csv(rows) ==
    LET filled(c) == {i \in 1 .. Len(rows) : rows[i][c] # ""}
        numeric(c) == \A i \in filled(c) : rows[i][c] \in NumericTexts
        int64(c) == /\ filled(c) = 1 .. Len(rows)
                    /\ \A i \in filled(c) : rows[i][c] \in IntTexts
        cell(i, c) == IF rows[i][c] = "" THEN NaN
                      ELSE IF numeric(c) /\ int64(c) THEN Num(IntText(rows[i][c]))
                      ELSE IF numeric(c) THEN Num(FloatText(rows[i][c]))
                      ELSE Str(rows[i][c])
    IN  [i \in 1 .. Len(rows) |-> [c \in Columns |-> cell(i, c)]]

\* Python's == on two cell values.
PyEq(a, b) ==
    IF a.kind = "nan" \/ b.kind = "nan" THEN FALSE
    ELSE IF a.kind = "num" /\ b.kind = "num" THEN FloatText(a.text) = FloatText(b.text)
    ELSE a = b

load_flips_skips_first(file, read_fails) ==
    IF ~file.exists THEN <<>>
    ELSE IF read_fails \/ file.rows = <<>> THEN <<>>
    ELSE read_csv(Tail(file.rows))

\* load_flips: the frame it returns. read_fails: pd.read_csv raised.
load_flips(file, read_fails) ==
    IF ~file.exists THEN <<>>
    ELSE IF read_fails THEN <<>>
    ELSE read_csv(file.rows)

\* load_flips of src/src/data/storage.py: an empty frame without columns when
\* the file is missing or unreadable.
storage_load_flips(file, read_fails) ==
    IF file.exists
    THEN IF read_fails THEN <<>> ELSE read_csv(file.rows)
    ELSE <<>>

WriteOutcomes == {"ok", "open_fails", "fails_midway"}

\* The frame that save_flip writes: what load_flips gave, then the record with
\* its timestamp.
Stamped(data) == [timestamp |-> Str("ts")] @@ data

save_frame(file, data, read_fails) ==
    Append(load_flips(file, read_fails), Stamped(data))

\* save_flip: the file after it and the value it returns. to_csv opens the
\* file for writing, which empties it, and then writes the whole frame; `kept`
\* is the number of rows on disk when the write fails midway.
save_flip(file, data, read_fails, write, kept) ==
    LET frame == save_frame(file, data, read_fails)
    IN  IF write = "ok"
        THEN [file |-> [exists |-> TRUE, rows |-> to_csv(frame)], ret |-> TRUE]
        ELSE IF write = "open_fails"
        THEN [file |-> file, ret |-> FALSE]
        ELSE [file |-> [exists |-> TRUE, rows |-> SubSeq(to_csv(frame), 1, kept)],
              ret |-> FALSE]

-----------------------------------------------------------------------------
(* The profit calculators. Amounts are cents; a fee rate is in thousandths, so
   a fee and everything added to one is in thousandths of a cent. *)

Platforms == {"eBay", "Facebook Marketplace", "Craigslist", "Etsy", "Amazon", "Mercari"}
Categories == {"Electronics", "Clothing", "Collectibles", "Home & Garden", "Toys",
               "Books", "Other"}

\* a / b on Python floats: ZeroDivisionError when b is 0, the quotient num / den
\* otherwise.
PyDiv(a, b) ==
    IF b = 0 THEN [raised |-> TRUE, num |-> 0, den |-> 1]
    ELSE [raised |-> FALSE, num |-> a, den |-> b]

PyTimes(q, k) == [q EXCEPT !.num = q.num * k]

Zero == [raised |-> FALSE, num |-> 0, den |-> 1]

get_fee_rate_no_default(category) ==
    CASE category = "Electronics" -> 120
      [] category = "Clothing" -> 130
      [] category = "Collectibles" -> 125
      [] category = "Home & Garden" -> 120
      [] category = "Toys" -> 125
      [] category = "Books" -> 145
      [] category = "Other" -> 130
      [] OTHER -> 0

get_fee_rate(category) ==
    CASE category = "Electronics" -> 120
      [] category = "Clothing" -> 130
      [] category = "Collectibles" -> 125
      [] category = "Home & Garden" -> 120
      [] category = "Toys" -> 125
      [] category = "Books" -> 145
      [] category = "Other" -> 130
      [] OTHER -> 130

\* src/app.py:1465-1474: fee_rates[platform]
fee_rates(platform, category) ==
    CASE platform = "eBay" -> get_fee_rate(category)
      [] platform = "Facebook Marketplace" -> 50
      [] platform = "Craigslist" -> 0
      [] platform = "Etsy" -> 65
      [] platform = "Amazon" -> 150
      [] platform = "Mercari" -> 100

\* src/app.py:1491
roi_unguarded(net_profit, your_cost) ==
    PyTimes(PyDiv(net_profit, your_cost), 100)

roi_of(net_profit, your_cost) ==
    IF your_cost > 0 THEN PyTimes(PyDiv(net_profit, your_cost), 100) ELSE Zero

PyMax(a, b) == IF b > a THEN b ELSE a

\* src/app.py:1604-1610, in 1/200 of a cent: target * 0.95 is
\* (2 * target) * 95 / 200 and your_cost * 1.3 is your_cost * 260 / 200.
price_rec_no_floor(avg_price, median_price, your_cost) ==
    IF median_price > avg_price THEN (median_price + avg_price) * 95
    ELSE 2 * avg_price * 95

price_rec(avg_price, median_price, your_cost) ==
    LET target_price2 == IF median_price > avg_price
                         THEN median_price + avg_price
                         ELSE 2 * avg_price
    IN  PyMax(target_price2 * 95, your_cost * 260)

\* src/app.py:1464-1491 and 1604-1610.
display_profit_calculator(f) ==
    LET fee_rate == fee_rates(f.platform, f.category)
        total_rev == f.selling_price + f.shipping_rev
        platform_fee == total_rev * fee_rate
        additional_fee == IF f.platform = "Etsy" THEN 20 * 1000 ELSE 0
        total_fee == platform_fee + additional_fee
        net_profit == total_rev * 1000 - total_fee - f.shipping_cost * 1000
                      - f.your_cost * 1000
    IN  [called |-> TRUE, op |-> "app", form |-> f,
         fee_rate |-> fee_rate, total_rev |-> total_rev,
         platform_fee |-> platform_fee, additional_fee |-> additional_fee,
         net_profit |-> net_profit,
         roi |-> roi_of(net_profit, f.your_cost * 1000),
         price_rec |-> price_rec(f.avg_price, f.median_price, f.your_cost)]

\* src/utils/stats.py:43-51
calculate_roi(cost, selling_price, fees, shipping_cost, additional_costs) ==
    IF cost = 0 THEN Zero
    ELSE LET total_costs == cost + shipping_cost + additional_costs + fees
             profit == selling_price - total_costs
         IN  PyTimes(PyDiv(profit, cost), 100)

\* src/ui/calculator.py:55-64
ui_display_profit_calculator(f) ==
    LET ebay_fee == f.selling_price * 130
        paypal_fee == f.selling_price * 29 + 30 * 1000
        total_costs == f.your_cost * 1000 + f.shipping_cost * 1000
                       + f.additional_costs * 1000 + ebay_fee + paypal_fee
        profit == f.selling_price * 1000 - total_costs
    IN  [called |-> TRUE, op |-> "ui", form |-> f, net_profit |-> profit,
         roi |-> IF f.your_cost > 0
                 THEN PyTimes(PyDiv(profit, f.your_cost * 1000), 100)
                 ELSE Zero]

-----------------------------------------------------------------------------
(* Python floats: IEEE 754 binary64, for the non-negative values that prices
   and their sums take. A float is zero or m * 2^e with m an integer of
   exactly Precision bits. Integers this wide are sequences of digits in base
   Base, most significant first, without leading zeros. Every operation
   rounds its exact result to the nearest float, ties to even. *)

Precision == 53

DigitBits == 14

Base == 16384

FZero == [m |-> <<>>, e |-> 0]

RECURSIVE Pow2(_)
Pow2(k) == IF k = 0 THEN 1 ELSE 2 * Pow2(k - 1)

\* The number of bits of an int k >= 0.
RECURSIVE BitLenInt(_)
BitLenInt(k) == IF k = 0 THEN 0 ELSE 1 + BitLenInt(k \div 2)

\* ds without its leading zero digits.
Norm(ds) ==
    IF \A i \in 1 .. Len(ds) : ds[i] = 0 THEN <<>>
    ELSE LET first == CHOOSE i \in 1 .. Len(ds) :
                          ds[i] # 0 /\ \A j \in 1 .. i - 1 : ds[j] = 0
         IN  SubSeq(ds, first, Len(ds))

BitLen(ds) ==
    IF ds = <<>> THEN 0 ELSE DigitBits * (Len(ds) - 1) + BitLenInt(ds[1])

ZeroDigits(n) == [i \in 1 .. n |-> 0]

\* ds * k for an int k in 1 .. Base; c[i] is the carry out of digit i + 1.
MulSmall(ds, k) ==
    LET len == Len(ds)
        c[i \in 0 .. len] ==
            IF i = len THEN 0 ELSE (ds[i + 1] * k + c[i + 1]) \div Base
    IN  Norm(<<c[0]>> \o [i \in 1 .. len |-> (ds[i] * k + c[i]) % Base])

\* a + b
AddBig(a, b) ==
    LET len == IF Len(a) > Len(b) THEN Len(a) ELSE Len(b)
        x == ZeroDigits(len - Len(a)) \o a
        y == ZeroDigits(len - Len(b)) \o b
        c[i \in 0 .. len] ==
            IF i = len THEN 0 ELSE (x[i + 1] + y[i + 1] + c[i + 1]) \div Base
    IN  Norm(<<c[0]>> \o [i \in 1 .. len |-> (x[i] + y[i] + c[i]) % Base])

\* ds divided by an int n in 1 .. Base: quotient and remainder; rem[i] is the
\* remainder after the first i digits.
DivSmall(ds, n) ==
    LET len == Len(ds)
        rem[i \in 0 .. len] ==
            IF i = 0 THEN 0 ELSE (rem[i - 1] * Base + ds[i]) % n
    IN  [q |-> Norm([i \in 1 .. len |-> (rem[i - 1] * Base + ds[i]) \div n]),
         r |-> rem[len]]

\* ds * 2^s
ShiftLeft(ds, s) ==
    IF ds = <<>> THEN <<>>
    ELSE MulSmall(ds, Pow2(s % DigitBits)) \o ZeroDigits(s \div DigitBits)

\* ds \div 2^s, and whether bits were shifted out that are not all zero.
ShiftRight(ds, s) ==
    LET whole == s \div DigitBits
        kept == SubSeq(ds, 1, Len(ds) - whole)
        d == DivSmall(kept, Pow2(s % DigitBits))
    IN  [q |-> d.q,
         sticky |-> d.r # 0 \/ \E i \in Len(ds) - whole + 1 .. Len(ds) : ds[i] # 0]

\* The float nearest to (ds + a fraction that is non-zero iff sticky) * 2^e.
RoundToFloat(ds, sticky, e) ==
    LET n == BitLen(ds)
    IN  IF n = 0 THEN FZero
        ELSE IF n <= Precision
        THEN [m |-> ShiftLeft(ds, Precision - n), e |-> e - (Precision - n)]
        ELSE LET sr == ShiftRight(ds, n - Precision - 1)
                 half == DivSmall(sr.q, 2)
                 keep == half.q
                 guard == half.r
                 rest == sticky \/ sr.sticky
                 up == guard = 1 /\ (rest \/ keep[Len(keep)] % 2 = 1)
                 inc == AddBig(keep, <<1>>)
             IN  IF ~up THEN [m |-> keep, e |-> e + (n - Precision)]
                 ELSE IF BitLen(inc) > Precision
                 THEN [m |-> DivSmall(inc, 2).q, e |-> e + (n - Precision) + 1]
                 ELSE [m |-> inc, e |-> e + (n - Precision)]

\* float(k) for an int k in 0 .. Base * Base - 1.
FromInt(k) == RoundToFloat(Norm(<<k \div Base, k % Base>>), FALSE, 0)

\* x + y
FAdd(x, y) ==
    IF x = FZero THEN y
    ELSE IF y = FZero THEN x
    ELSE LET e0 == IF x.e < y.e THEN x.e ELSE y.e
         IN  RoundToFloat(AddBig(ShiftLeft(x.m, x.e - e0), ShiftLeft(y.m, y.e - e0)),
                          FALSE, e0)

\* x / n for an int n in 1 .. 2^7: the dividend is extended by 9 bits so that
\* the quotient has a guard bit below its Precision bits.
FDivInt(x, n) ==
    IF x = FZero THEN FZero
    ELSE LET d == DivSmall(ShiftLeft(x.m, 9), n)
         IN  RoundToFloat(d.q, d.r # 0, x.e - 9)

\* a < b for two integers of one length.
DigitsLess(a, b) ==
    \E i \in 1 .. Len(a) :
        a[i] < b[i] /\ \A j \in 1 .. i - 1 : a[j] = b[j]

\* x < y
FLess(x, y) ==
    IF y = FZero THEN FALSE
    ELSE IF x = FZero THEN TRUE
    ELSE IF x.e # y.e THEN x.e < y.e
    ELSE DigitsLess(x.m, y.m)

FLeq(x, y) == ~FLess(y, x)

\* float("d.cc"): the float nearest to cents / 100.
FromCents(cents) == FDivInt(FromInt(cents), 100)

-----------------------------------------------------------------------------
(* calculate_stats *)

\* sum(xs): a left fold that starts from the int 0.
RECURSIVE FSumFrom(_, _)
FSumFrom(acc, xs) ==
    IF xs = <<>> THEN acc ELSE FSumFrom(FAdd(acc, Head(xs)), Tail(xs))

FSum(xs) == FSumFrom(FZero, xs)

RECURSIVE FMin(_)
FMin(xs) ==
    IF Len(xs) = 1 THEN xs[1]
    ELSE LET rest == FMin(Tail(xs))
         IN  IF FLess(rest, Head(xs)) THEN rest ELSE Head(xs)

RECURSIVE FMax(_)
FMax(xs) ==
    IF Len(xs) = 1 THEN xs[1]
    ELSE LET rest == FMax(Tail(xs))
         IN  IF FLess(Head(xs), rest) THEN rest ELSE Head(xs)

\* sorted(xs): ascending and stable.
RECURSIVE InsertSorted(_, _)
InsertSorted(x, xs) ==
    IF xs = <<>> THEN <<x>>
    ELSE IF FLess(x, Head(xs)) THEN <<x>> \o xs
    ELSE <<Head(xs)>> \o InsertSorted(x, Tail(xs))

RECURSIVE sorted(_)
sorted(xs) ==
    IF xs = <<>> THEN <<>>
    ELSE InsertSorted(xs[Len(xs)], sorted(SubSeq(xs, 1, Len(xs) - 1)))

median_unsorted(prices) ==
    prices[Len(prices) \div 2 + 1]

median_lower_middle(prices) ==
    sorted(prices)[(Len(prices) + 1) \div 2]

\* src/app.py:876: sorted(prices)[len(prices) // 2], on a 0-based list.
median_price(prices) ==
    sorted(prices)[Len(prices) \div 2 + 1]

\* key in item, for a dict item.
HasKey(item, key) == key \in DOMAIN item

\* src/app.py:856-894. logged: the except branch ran log_debug and st.error.
calculate_stats(items) ==
    LET prices == [i \in 1 .. Len(items) |-> items[i].price]
        totals == [i \in 1 .. Len(items) |-> FAdd(items[i].price, items[i].shipping)]
        zeros == [count |-> Len(items), avg_price |-> FZero, median_price |-> FZero,
                  min_price |-> FZero, max_price |-> FZero, total_value |-> FZero,
                  avg_total |-> FZero]
    IN  IF items = <<>>
        THEN [raised |-> FALSE, logged |-> FALSE, result |-> zeros]
        ELSE IF \E i \in 1 .. Len(items) :
                    ~HasKey(items[i], "price") \/ ~HasKey(items[i], "shipping")
        THEN [raised |-> FALSE, logged |-> TRUE, result |-> zeros]
        ELSE [raised |-> FALSE, logged |-> FALSE,
              result |-> [count |-> Len(items),
                          avg_price |-> FDivInt(FSum(prices), Len(prices)),
                          median_price |-> median_price(prices),
                          min_price |-> FMin(prices),
                          max_price |-> FMax(prices),
                          total_value |-> FSum(prices),
                          avg_total |-> FDivInt(FSum(totals), Len(totals))]]

\* src/src/utils/stats.py:1-21. A missing key raises KeyError out of the
\* function.
utils_calculate_stats(items) ==
    LET prices == [i \in 1 .. Len(items) |-> items[i].price]
        watchers == [i \in 1 .. Len(items) |-> items[i].watchers]
        total == LET RECURSIVE Sum(_)
                     Sum(k) == IF k = 0 THEN 0 ELSE Sum(k - 1) + watchers[k]
                 IN  Sum(Len(items))
    IN  IF items = <<>>
        THEN [raised |-> FALSE, logged |-> FALSE,
              result |-> [count |-> 0, avg_price |-> FZero, min_price |-> FZero,
                          max_price |-> FZero, total_watchers |-> 0]]
        ELSE IF \E i \in 1 .. Len(items) :
                    ~HasKey(items[i], "price") \/ ~HasKey(items[i], "watchers")
        THEN [raised |-> TRUE, logged |-> FALSE, result |-> None]
        ELSE [raised |-> FALSE, logged |-> FALSE,
              result |-> [count |-> Len(items),
                          avg_price |-> FDivInt(FSum(prices), Len(prices)),
                          min_price |-> FMin(prices),
                          max_price |-> FMax(prices),
                          total_watchers |-> total]]

-----------------------------------------------------------------------------
(* The EbayAPI class of src/src/api/ebay_api.py and src/src/api/ebay.py *)

\* EbayAPI.check_credentials of ebay_api.py
api_check_credentials(app_id, cert_id, dev_id) ==
    /\ app_id # None /\ app_id # ""
    /\ cert_id # None /\ cert_id # ""
    /\ dev_id # None /\ dev_id # ""

\* EbayAPI.check_credentials of ebay.py
ebay_check_credentials(app_id, cert_id) ==
    LET has_app_id == app_id # None /\ app_id # ""
        has_cert_id == cert_id # None /\ cert_id # ""
    IN  has_app_id /\ has_cert_id

\* EbayAPI.get_oauth_token of ebay_api.py: the pair it returns.
api_get_oauth_token(use_mock, app_id, cert_id, dev_id, resp) ==
    IF use_mock THEN [posted |-> FALSE, token |-> "mock-token", error |-> None]
    ELSE IF ~api_check_credentials(app_id, cert_id, dev_id)
    THEN [posted |-> FALSE, token |-> None, error |-> "Missing eBay credentials"]
    ELSE IF resp.kind = "raise"
    THEN [posted |-> TRUE, token |-> None, error |-> "Error"]
    ELSE IF resp.status # 200
    THEN [posted |-> TRUE, token |-> None, error |-> "Failed to get token"]
    ELSE IF resp.json # "object" \/ resp.access_token = Missing
    THEN [posted |-> TRUE, token |-> None, error |-> "Error"]
    ELSE [posted |-> TRUE, token |-> resp.access_token, error |-> None]

\* An item of ebay_api.py: the sold items of the Finding API carry no watchers.
ApiItem(raw, sold) ==
    IF sold
    THEN [id |-> [prefix |-> "v1|", n |-> raw.itemId], title |-> raw.title,
          sold |-> TRUE]
    ELSE [id |-> [prefix |-> "v1|", n |-> raw.itemId], title |-> raw.title,
          watchers |-> raw.watchCount, sold |-> FALSE]

\* EbayAPI._generate_mock_items
api_generate_mock_items(count, sold, w) ==
    [i \in 1 .. count |->
        [id |-> [prefix |-> "mock-", n |-> i - 1],
         title |-> "Mock Item - Demo Product",
         watchers |-> w[i], sold |-> sold]]

\* The loop over the records of a 200 response: the first record on which the
\* conversion raises ends it with that exception.
ApiConverted(resp, sold) ==
    IF resp.json # "object" \/ resp.items_kind = "not_iterable"
       \/ \E i \in 1 .. Len(resp.items) : ~resp.items[i].convertible
    THEN [raised |-> TRUE, items |-> <<>>]
    ELSE [raised |-> FALSE,
          items |-> [i \in 1 .. Len(resp.items) |-> ApiItem(resp.items[i], sold)]]

\* EbayAPI.fetch_sold_items_finding: no try around the request or the parsing.
fetch_sold_items_finding(limit, resp) ==
    LET sent == [requested |-> TRUE, request_limit |-> limit, mocked |-> FALSE]
    IN  IF resp.kind = "raise"
        THEN sent @@ [raised |-> TRUE, items |-> <<>>, error |-> None]
        ELSE IF resp.status # 200
        THEN sent @@ [raised |-> FALSE, items |-> <<>>, error |-> "eBay Finding API error"]
        ELSE sent @@ [raised |-> ApiConverted(resp, TRUE).raised,
                      items |-> ApiConverted(resp, TRUE).items, error |-> None]

\* EbayAPI.fetch_items of ebay_api.py: the pair it returns, or the exception.
api_fetch_items(use_mock, app_id, cert_id, dev_id, sold, limit, tokResp, resp, w) ==
    LET unsent == [requested |-> FALSE, request_limit |-> 0, raised |-> FALSE]
        sent == [requested |-> TRUE, request_limit |-> limit, raised |-> FALSE]
        auth == api_get_oauth_token(use_mock, app_id, cert_id, dev_id, tokResp)
    IN  IF use_mock
        THEN unsent @@ [mocked |-> TRUE, items |-> api_generate_mock_items(limit, sold, w),
                        error |-> None]
        ELSE IF ~api_check_credentials(app_id, cert_id, dev_id)
        THEN unsent @@ [mocked |-> FALSE, items |-> <<>>,
                        error |-> "Missing eBay credentials."]
        ELSE IF sold THEN fetch_sold_items_finding(limit, resp)
        ELSE IF ~Truthy(auth.token)
        THEN unsent @@ [mocked |-> FALSE, items |-> <<>>, error |-> "OAuth error"]
        ELSE IF resp.kind = "raise"
        THEN sent @@ [mocked |-> TRUE, items |-> api_generate_mock_items(limit, FALSE, w),
                      error |-> "Exception (using mock data)"]
        ELSE IF resp.status # 200
        THEN sent @@ [mocked |-> FALSE, items |-> <<>>, error |-> "eBay API error"]
        ELSE IF ApiConverted(resp, FALSE).raised
        THEN sent @@ [mocked |-> TRUE, items |-> api_generate_mock_items(limit, FALSE, w),
                      error |-> "Exception (using mock data)"]
        ELSE sent @@ [mocked |-> FALSE, items |-> ApiConverted(resp, FALSE).items,
                      error |-> None]

\* How the marketplace answered an EbayAPI fetch, told from the answers alone.
ApiUpstream(use_mock, app_id, cert_id, dev_id, sold, auth, resp) ==
    IF use_mock THEN "mock_mode"
    ELSE IF ~(Truthy(app_id) /\ Truthy(cert_id) /\ Truthy(dev_id)) THEN "no_credentials"
    ELSE IF ~sold /\ ~Truthy(auth.token) THEN "token_failure"
    ELSE IF resp.kind = "raise" THEN "transport"
    ELSE IF resp.status # 200 THEN "status"
    ELSE IF resp.json # "object" \/ resp.items_kind = "not_iterable" THEN "malformed_body"
    ELSE "answered"

-----------------------------------------------------------------------------
(* The platform recommendation *)

Conditions == {"any", "new", "New", "NEW", "used", "Used"}

\* str.lower() on the condition texts.
py_lower(condition) ==
    IF condition \in {"new", "New", "NEW"} THEN "new"
    ELSE IF condition \in {"used", "Used"} THEN "used"
    ELSE condition

Recommendation(platform, reason) == [platform |-> platform, reason |-> reason]

get_recommended_platform_exact_case(category, avg_price, condition) ==
    IF category = "Electronics" /\ avg_price > 10000
    THEN Recommendation("eBay", "Electronics over $100 typically perform well on eBay due to buyer trust and protection.")
    ELSE IF category = "Home & Garden" /\ avg_price < 5000
    THEN Recommendation("Facebook Marketplace", "Bulky home items are often best sold locally to avoid shipping costs.")
    ELSE IF category = "Clothing" /\ condition # "new"
    THEN Recommendation("Facebook Marketplace", "Used clothing often sells better locally without shipping costs.")
    ELSE IF category = "Collectibles"
    THEN Recommendation("eBay", "Collectibles reach the largest collector audience on eBay with auction options.")
    ELSE IF category = "Books"
    THEN Recommendation("Amazon", "Books typically reach more targeted buyers on Amazon.")
    ELSE Recommendation("eBay", "General recommendation based on market size and visibility.")

\* get_recommended_platform (src/app.py:688-711); avg_price is in cents.
get_recommended_platform(category, avg_price, condition) ==
    IF category = "Electronics" /\ avg_price > 10000
    THEN Recommendation("eBay", "Electronics over $100 typically perform well on eBay due to buyer trust and protection.")
    ELSE IF category = "Home & Garden" /\ avg_price < 5000
    THEN Recommendation("Facebook Marketplace", "Bulky home items are often best sold locally to avoid shipping costs.")
    ELSE IF category = "Clothing" /\ py_lower(condition) # "new"
    THEN Recommendation("Facebook Marketplace", "Used clothing often sells better locally without shipping costs.")
    ELSE IF category = "Collectibles"
    THEN Recommendation("eBay", "Collectibles reach the largest collector audience on eBay with auction options.")
    ELSE IF category = "Books"
    THEN Recommendation("Amazon", "Books typically reach more targeted buyers on Amazon.")
    ELSE Recommendation("eBay", "General recommendation based on market size and visibility.")

-----------------------------------------------------------------------------
(* The debug log *)

\* recent[-n:]
LastOf(list, n) ==
    IF Len(list) <= n THEN list ELSE SubSeq(list, Len(list) - n + 1, Len(list))

\* log_debug of src/app.py:329-331: the list after the call.
log_debug(debug, formatted_message) ==
    LET kept == IF Len(debug) > 100 THEN LastOf(debug, 100) ELSE debug
    IN  Append(kept, formatted_message)

\* log_debug of src/src/utils/logging.py:13-16
utils_log_debug(debug, debug_message) ==
    LastOf(Append(debug, debug_message), 100)

-----------------------------------------------------------------------------
(* Recent searches *)

MAX_RECENT_SEARCHES == 10

\* recent[:n]
Truncated(recent, n) == SubSeq(recent, 1, PyMin(Len(recent), n))

InList(x, list) == \E i \in 1 .. Len(list) : list[i] = x

record_search_uncapped(recent, search_data) ==
    IF ~InList(search_data, recent) THEN <<search_data>> \o recent ELSE recent

\* src/app.py:1203-1206 and 1255-1258: the list after the search is recorded.
record_search(recent, search_data) ==
    IF ~InList(search_data, recent)
    THEN LET inserted == <<search_data>> \o recent
         IN  IF Len(inserted) > MAX_RECENT_SEARCHES
             THEN Truncated(inserted, MAX_RECENT_SEARCHES)
             ELSE inserted
    ELSE recent

\* src/src/ui/search.py:63-64
ui_record_search(recent, query) ==
    Truncated(<<query>> \o recent, 10)

-----------------------------------------------------------------------------
(* The token cache and the fetcher: state machine *)

NoCall == [called |-> FALSE]

SessionDefaults ==
    /\ ebay_oauth_token = None
    /\ ebay_token_expiry = 0
    /\ now = 100
    /\ said = [known |-> FALSE, at |-> 0]
    /\ lastAuth = NoCall
    /\ lastExchange = NoCall
    /\ lastFetch = NoCall

InitToken ==
    /\ EBAY_APP_ID \in CredValues
    /\ EBAY_CERT_ID \in CredValues
    /\ SessionDefaults

\* The ledger and the calculator read no credentials.
InitNoCredentials ==
    /\ EBAY_APP_ID = None
    /\ EBAY_CERT_ID = None
    /\ SessionDefaults

InitLedger ==
    /\ flipsFile = [exists |-> FALSE, rows |-> <<>>]
    /\ lastSave = NoCall

InitConc ==
    /\ pc = <<>>
    /\ df = <<>>
    /\ flip = <<>>
    /\ saved = <<>>
    /\ stored0 = [exists |-> FALSE, rows |-> <<>>]

InitCalc == calc = NoCall

\* src/app.py:286-287: the session starts with no recent searches.
InitSearches ==
    /\ recent_searches = <<>>
    /\ session = [program |-> "app", clock |-> 0]
    /\ lastSubmit = NoCall

InitAux ==
    /\ lastLoad = NoCall
    /\ api = NoCall
    /\ rec = NoCall
    /\ debug_info = [impl |-> "app", logs |-> <<>>, logged |-> 0]

InitUi ==
    /\ stats = NoCall /\ filter_settings = [exclude_words |-> ""]
    /\ InitSearches /\ InitAux

Init == InitToken /\ InitLedger /\ InitConc /\ InitCalc /\ InitUi

\* Time passes.
Tick ==
    /\ \E d \in TickSteps :
        /\ now + d <= MaxTime
        /\ now' = now + d
    /\ UNCHANGED <<EBAY_APP_ID, EBAY_CERT_ID, ebay_oauth_token, ebay_token_expiry,
                   said, lastAuth, lastExchange, lastFetch>>
    /\ UNCHANGED <<ledgerVars, concVars, calcVars, uiVars>>

AuthCall(tok0, exp0, said0, t, auth) ==
    [called |-> TRUE, tok0 |-> tok0, exp0 |-> exp0, said0 |-> said0, t |-> t,
     token |-> auth.token, error |-> auth.error, exchanges |-> auth.exchanges]

ExchangeCall(tok0, exp0, x) ==
    [called |-> TRUE, tok0 |-> tok0, exp0 |-> exp0, tok1 |-> x.tok, exp1 |-> x.exp,
     raised |-> x.raised, token |-> x.token, error |-> x.error]

\* The answers that a call can meet: one is drawn only for a request that is sent.
NoTokenAnswer ==
    [kind |-> "unsent", status |-> 0, json |-> "none",
     access_token |-> Missing, expires_in |-> 0, has_expires_in |-> FALSE]

NoSearchAnswer ==
    [kind |-> "unsent", status |-> 0, json |-> "none", items_kind |-> "absent", items |-> <<>>]

TokenAnswers(app, cert, tok, exp, t) ==
    IF ensure_oauth_token(app, cert, tok, exp, t, NoTokenAnswer).posted
    THEN TokenResponses ELSE {NoTokenAnswer}

SearchAnswers(app, cert, tok, exp, t, tokResp) ==
    IF /\ check_ebay_credentials(app, cert)
       /\ search_ebay_browse(app, cert, tok, exp, t, FALSE, 0, tokResp, NoSearchAnswer).requested
    THEN SearchResponses ELSE {NoSearchAnswer}

RandomDraws(mocked, limit) ==
    IF mocked THEN [1 .. limit -> WatcherSamples] ELSE {<<>>}

\* The ensure_oauth_token call that opens every search (src/app.py:448): the
\* one place where a fetch touches the token cache.
EnsureOAuthToken ==
    /\ check_ebay_credentials(EBAY_APP_ID, EBAY_CERT_ID)
    /\ \E tokResp \in TokenAnswers(EBAY_APP_ID, EBAY_CERT_ID, ebay_oauth_token,
                                   ebay_token_expiry, now) :
        LET auth == ensure_oauth_token(EBAY_APP_ID, EBAY_CERT_ID, ebay_oauth_token,
                                       ebay_token_expiry, now, tokResp)
        IN  /\ ebay_oauth_token' = auth.tok
            /\ ebay_token_expiry' = auth.exp
            /\ lastAuth' = AuthCall(ebay_oauth_token, ebay_token_expiry, said, now, auth)
            /\ lastExchange' = IF auth.exchanges = 1
                               THEN ExchangeCall(ebay_oauth_token, ebay_token_expiry, auth)
                               ELSE NoCall
            /\ said' = IF auth.exchanges = 1
                       THEN SaidAfter(said, auth, now, tokResp)
                       ELSE said
    /\ UNCHANGED <<EBAY_APP_ID, EBAY_CERT_ID, now, lastFetch>>
    /\ UNCHANGED <<ledgerVars, concVars, calcVars, uiVars>>

\* The sidebar's "Refresh OAuth Token" button (src/app.py:984-991).
RefreshOAuthToken ==
    /\ \E tokResp \in TokenResponses :
        LET x == get_ebay_oauth_token(EBAY_APP_ID, EBAY_CERT_ID, ebay_oauth_token,
                                      ebay_token_expiry, now, tokResp)
        IN  /\ ebay_oauth_token' = x.tok
            /\ ebay_token_expiry' = x.exp
            /\ lastExchange' = ExchangeCall(ebay_oauth_token, ebay_token_expiry, x)
            /\ said' = SaidAfter(said, x, now, tokResp)
            /\ lastAuth' = NoCall
    /\ UNCHANGED <<EBAY_APP_ID, EBAY_CERT_ID, now, lastFetch>>
    /\ UNCHANGED <<ledgerVars, concVars, calcVars, uiVars>>

NextToken == Tick \/ EnsureOAuthToken \/ RefreshOAuthToken

SpecToken == Init /\ [][NextToken]_vars

\* One fetch_items call of main() (src/app.py:2159-2160), at one instant: a
\* token whose expires_in is the 300 s margin is expired as soon as it is
\* cached, so both the cached and the refreshing path are taken. said,
\* lastAuth and lastExchange follow the token calls of SpecToken and are not
\* kept here.
FetchItems ==
    /\ \E sold \in BOOLEAN, limit \in Limits :
       \E tokResp \in TokenAnswers(EBAY_APP_ID, EBAY_CERT_ID, ebay_oauth_token,
                                   ebay_token_expiry, now) :
       \E resp \in SearchAnswers(EBAY_APP_ID, EBAY_CERT_ID, ebay_oauth_token,
                                 ebay_token_expiry, now, tokResp) :
       \E w \in RandomDraws(fetch_items(EBAY_APP_ID, EBAY_CERT_ID, ebay_oauth_token,
                                        ebay_token_expiry, now, sold, 0, tokResp, resp,
                                        <<>>).mocked, limit) :
        LET auth == ensure_oauth_token(EBAY_APP_ID, EBAY_CERT_ID, ebay_oauth_token,
                                       ebay_token_expiry, now, tokResp)
            r == fetch_items(EBAY_APP_ID, EBAY_CERT_ID, ebay_oauth_token,
                             ebay_token_expiry, now, sold, limit, tokResp, resp, w)
        IN  /\ ebay_oauth_token' = r.tok
            /\ ebay_token_expiry' = r.exp
            /\ lastFetch' = [called |-> TRUE, sold |-> sold, limit |-> limit,
                             filters |-> filter_settings,
                             upstream |-> Upstream(EBAY_APP_ID, EBAY_CERT_ID, auth, resp),
                             raised |-> r.raised, mocked |-> r.mocked,
                             items |-> r.items, error |-> r.error,
                             shown |-> r.items]
    /\ UNCHANGED <<EBAY_APP_ID, EBAY_CERT_ID, now, said, lastAuth, lastExchange>>
    /\ UNCHANGED <<ledgerVars, concVars, calcVars, uiVars>>

ExcludeWordsValues == {"", "vintage"}

\* The sidebar's "Exclude Words (comma separated)" input: src/app.py:930-933.
SetExcludeWords ==
    /\ \E words \in ExcludeWordsValues \ {filter_settings.exclude_words} :
        filter_settings' = [exclude_words |-> words]
    /\ UNCHANGED <<tokenVars, ledgerVars, concVars, calcVars, stats, searchVars, auxVars>>

NextFetch == FetchItems \/ SetExcludeWords

SpecFetch == Init /\ [][NextFetch]_vars

-----------------------------------------------------------------------------
(* The flip ledger: one session *)

MaxRows == 2

\* "Save This Flip" (src/app.py:1559-1583), run to completion.
SaveFlip ==
    /\ Len(flipsFile.rows) < MaxRows
    /\ \E data \in FlipRecords, read_fails \in BOOLEAN, write \in WriteOutcomes :
       \E kept \in 0 .. Len(save_frame(flipsFile, data, read_fails)) - 1 :
        /\ read_fails => flipsFile.exists
        /\ write # "fails_midway" => kept = 0
        /\ LET r == save_flip(flipsFile, data, read_fails, write, kept)
           IN  /\ flipsFile' = r.file
               /\ lastSave' = [called |-> TRUE, before |-> flipsFile, data |-> data,
                               read_failed |-> read_fails, write |-> write,
                               ret |-> r.ret]
    /\ UNCHANGED <<tokenVars, concVars, calcVars, uiVars>>

NextLedger == SaveFlip

InitSaves == InitNoCredentials /\ InitLedger /\ InitConc /\ InitCalc /\ InitUi

SpecLedger == InitSaves /\ [][NextLedger]_vars

\* The files that up to n save_flip calls leave behind, starting from no file.
RECURSIVE FilesAfter(_)
FilesAfter(n) ==
    IF n = 0 THEN {[exists |-> FALSE, rows |-> <<>>]}
    ELSE LET before == FilesAfter(n - 1)
         IN  before \cup
             {save_flip(f, d, FALSE, w, 0).file :
                f \in before, d \in FlipRecords, w \in {"ok", "fails_midway"}}

InitLoads ==
    /\ InitNoCredentials /\ InitConc /\ InitCalc
    /\ stats = NoCall /\ filter_settings = [exclude_words |-> ""] /\ InitSearches
    /\ flipsFile \in FilesAfter(MaxRows)
    /\ lastSave = NoCall
    /\ lastLoad = NoCall
    /\ api = NoCall /\ rec = NoCall
    /\ debug_info = [impl |-> "app", logs |-> <<>>, logged |-> 0]

\* A page that loads the ledger (load_flips of either program), run to
\* completion.
LoadFlips ==
    /\ \E impl \in {"app", "storage"}, read_fails \in BOOLEAN :
        /\ read_fails => flipsFile.exists
        /\ lastLoad' = [called |-> TRUE, impl |-> impl, file |-> flipsFile,
                        read_failed |-> read_fails,
                        frame |-> IF impl = "app"
                                  THEN load_flips(flipsFile, read_fails)
                                  ELSE storage_load_flips(flipsFile, read_fails)]
        /\ lastLoad' # lastLoad
    /\ UNCHANGED <<tokenVars, ledgerVars, concVars, calcVars>>
    /\ UNCHANGED <<stats, filter_settings, searchVars, api, rec, debug_info>>

NextLoad == LoadFlips

SpecLoad == InitLoads /\ [][NextLoad]_vars

-----------------------------------------------------------------------------
(* The flip ledger: two sessions saving at once. Streamlit runs each session's
   script in a thread of its own; save_flip takes no lock. *)

Sessions == {1, 2}

StoredFiles ==
    {[exists |-> FALSE, rows |-> <<>>]}
    \cup {[exists |-> TRUE, rows |-> to_csv(<<Stamped(d)>>)] : d \in FlipRecords}

InitConcurrent ==
    /\ InitNoCredentials /\ InitCalc /\ InitUi
    /\ flipsFile \in StoredFiles
    /\ stored0 = flipsFile
    /\ lastSave = NoCall
    /\ pc = [p \in Sessions |-> "start"]
    /\ df = [p \in Sessions |-> <<>>]
    /\ flip \in [Sessions -> FlipRecords]
    /\ saved = [p \in Sessions |-> FALSE]

\* src/app.py:835: df = load_flips()
ConcLoad(p) ==
    /\ pc[p] = "start"
    /\ df' = [df EXCEPT ![p] = save_frame(flipsFile, flip[p], FALSE)]
    /\ pc' = [pc EXCEPT ![p] = "loaded"]
    /\ UNCHANGED <<flipsFile, lastSave, flip, saved, stored0>>
    /\ UNCHANGED <<tokenVars, calcVars, uiVars>>

\* src/app.py:846-854: df.to_csv(FLIPS_FILE), return True, or False from the
\* except clause.
ConcWrite(p) ==
    /\ pc[p] = "loaded"
    /\ \E write \in {"ok", "open_fails"} :
        /\ flipsFile' = IF write = "ok"
                        THEN [exists |-> TRUE, rows |-> to_csv(df[p])]
                        ELSE flipsFile
        /\ saved' = [saved EXCEPT ![p] = (write = "ok")]
    /\ pc' = [pc EXCEPT ![p] = "done"]
    /\ UNCHANGED <<lastSave, df, flip, stored0>>
    /\ UNCHANGED <<tokenVars, calcVars, uiVars>>

NextConc == \E p \in Sessions : ConcLoad(p) \/ ConcWrite(p)

SpecConc == InitConcurrent /\ [][NextConc]_vars

-----------------------------------------------------------------------------
(* The profit calculators: each is a function of the form's inputs *)

Forms ==
    [your_cost : {0, 2000}, selling_price : {0, 5000}, shipping_cost : {0, 500},
     shipping_rev : {0, 500}, additional_costs : {0, 500},
     platform : Platforms, category : Categories \cup {"Antiques"},
     avg_price : {0, 4000}, median_price : {3000, 6000}]

InitCalculator ==
    /\ InitNoCredentials /\ InitLedger /\ InitConc /\ InitUi
    /\ calc \in {[called |-> FALSE, form |-> f] : f \in Forms}

\* src/app.py:2195: display_profit_calculator(...)
Calculate ==
    /\ ~calc.called
    /\ calc' = display_profit_calculator(calc.form)
    /\ UNCHANGED <<tokenVars, ledgerVars, concVars, uiVars>>

\* src/utils/stats.py: calculate_roi(cost, selling_price, fees, shipping_cost,
\* additional_costs), the fees being the form's shipping revenue field.
CalculateRoi ==
    /\ ~calc.called
    /\ calc' = [called |-> TRUE, op |-> "stats", form |-> calc.form,
                net_profit |-> calc.form.selling_price
                               - (calc.form.your_cost + calc.form.shipping_cost
                                  + calc.form.additional_costs + calc.form.shipping_rev),
                roi |-> calculate_roi(calc.form.your_cost, calc.form.selling_price,
                                      calc.form.shipping_rev, calc.form.shipping_cost,
                                      calc.form.additional_costs)]
    /\ UNCHANGED <<tokenVars, ledgerVars, concVars, uiVars>>

\* src/ui/calculator.py: display_profit_calculator(...)
UiCalculate ==
    /\ ~calc.called
    /\ calc' = ui_display_profit_calculator(calc.form)
    /\ UNCHANGED <<tokenVars, ledgerVars, concVars, uiVars>>

\* The user types the recommended price into the "Selling Price ($)" input
\* (whole cents) and the script reruns: src/app.py:1453, 1464-1491.
SellAtRecommended ==
    /\ calc.called /\ calc.op = "app"
    /\ calc.price_rec % 200 = 0
    /\ calc.form.selling_price * 200 # calc.price_rec
    /\ calc' = display_profit_calculator(
                    [calc.form EXCEPT !.selling_price = calc.price_rec \div 200])
    /\ UNCHANGED <<tokenVars, ledgerVars, concVars, uiVars>>

NextCalc == Calculate \/ CalculateRoi \/ UiCalculate \/ SellAtRecommended

SpecCalc == InitCalculator /\ [][NextCalc]_vars

-----------------------------------------------------------------------------
(* calculate_stats on the item lists that the fetchers hand over *)

MaxItems == 4

PriceCents == {1000, 1080, 2000, 3000, 4000}

ItemKinds == {"synthetic", "active", "sold"}

\* The fields of an item that calculate_stats reads, as the fetchers of
\* src/app.py build them (lines 545-591, 632-673): every item has watchers.
app_item(kind, cents) ==
    [price |-> FromCents(cents), shipping |-> FromCents(499),
     watchers |-> IF kind = "sold" THEN 0 ELSE 5]

\* The same for src/src/api/ebay_api.py: fetch_sold_items_finding (102-132)
\* builds items without a watchers key.
api_item(kind, cents) ==
    IF kind = "sold"
    THEN [price |-> FromCents(cents), shipping |-> FromCents(499)]
    ELSE [price |-> FromCents(cents), shipping |-> FromCents(499), watchers |-> 5]

InitStats ==
    /\ InitNoCredentials /\ InitLedger /\ InitConc /\ InitCalc
    /\ filter_settings = [exclude_words |-> ""] /\ InitSearches /\ InitAux
    /\ stats \in {[called |-> FALSE, kind |-> k, cents |-> c] :
                    k \in ItemKinds, c \in SeqsUpTo(PriceCents, MaxItems)}

StatsCall(impl, items, out) ==
    [called |-> TRUE, impl |-> impl, kind |-> stats.kind, cents |-> stats.cents,
     items |-> items, raised |-> out.raised, logged |-> out.logged,
     result |-> out.result]

\* src/app.py:2173-2174
CalculateStats ==
    /\ ~stats.called
    /\ LET items == [i \in 1 .. Len(stats.cents) |-> app_item(stats.kind, stats.cents[i])]
       IN  stats' = StatsCall("app", items, calculate_stats(items))
    /\ UNCHANGED <<tokenVars, ledgerVars, concVars, calcVars, filter_settings, searchVars, auxVars>>

\* src/src/app.py:136-137
UtilsCalculateStats ==
    /\ ~stats.called
    /\ LET items == [i \in 1 .. Len(stats.cents) |-> api_item(stats.kind, stats.cents[i])]
       IN  stats' = StatsCall("utils", items, utils_calculate_stats(items))
    /\ UNCHANGED <<tokenVars, ledgerVars, concVars, calcVars, filter_settings, searchVars, auxVars>>

NextStats == CalculateStats \/ UtilsCalculateStats

SpecStats == InitStats /\ [][NextStats]_vars

-----------------------------------------------------------------------------
(* Submitting searches *)

MaxSearches == 11

Queries == {"camera", "lamp"}

\* One of the queries that process_image_search draws (src/app.py:620-623).
ImageQueries == {"vintage camera"}

InitSearch ==
    /\ InitNoCredentials /\ InitLedger /\ InitConc /\ InitCalc
    /\ stats = NoCall /\ filter_settings = [exclude_words |-> ""]
    /\ recent_searches = <<>>
    /\ session \in {[program |-> p, clock |-> 0] : p \in {"app", "ui"}}
    /\ lastSubmit = NoCall
    /\ InitAux

Submitted(entry, after) ==
    /\ lastSubmit' = [called |-> TRUE, before |-> recent_searches, entry |-> entry,
                      recorded |-> after # recent_searches]
    /\ recent_searches' = after
    /\ session' = [session EXCEPT !.clock = @ + 1]
    /\ UNCHANGED <<tokenVars, ledgerVars, concVars, calcVars, stats, filter_settings, auxVars>>

\* The search form of src/app.py, submitted with a query (lines 1188-1212);
\* save_recent_searches then writes the same list to data/searches.json.
\* Of search_data the model keeps the query and the timestamp; the other form
\* fields (is_upc, flip_type, cost, category, photo) are held fixed.
SubmitSearch ==
    /\ session.program = "app" /\ session.clock < MaxSearches
    /\ \E query \in Queries :
        LET search_data == [query |-> query, image_search |-> FALSE,
                            timestamp |-> session.clock + 1]
        IN  Submitted(search_data, record_search(recent_searches, search_data))

\* "Search with this Image" of src/app.py (lines 1236-1265).
ImageSearch ==
    /\ session.program = "app" /\ session.clock < MaxSearches
    /\ \E query \in ImageQueries :
        LET image_search == [query |-> query, image_search |-> TRUE,
                             timestamp |-> session.clock + 1]
        IN  Submitted(image_search, record_search(recent_searches, image_search))

\* The search button of src/src/ui/search.py with a query (lines 46-67).
UiSubmitSearch ==
    /\ session.program = "ui" /\ session.clock < MaxSearches
    /\ \E query \in Queries :
        Submitted(query, ui_record_search(recent_searches, query))

NextSearch == SubmitSearch \/ ImageSearch \/ UiSubmitSearch

SpecSearch == InitSearch /\ [][NextSearch]_vars

-----------------------------------------------------------------------------
(* Searching the marketplace *)

BrowseLimits == {1, 200, 201}

\* One search_ebay_browse call (src/app.py:442-600), run to completion.
SearchBrowse ==
    /\ check_ebay_credentials(EBAY_APP_ID, EBAY_CERT_ID)
    /\ \E sold \in BOOLEAN, limit \in BrowseLimits :
       \E tokResp \in TokenAnswers(EBAY_APP_ID, EBAY_CERT_ID, ebay_oauth_token,
                                   ebay_token_expiry, now) :
       \E resp \in SearchAnswers(EBAY_APP_ID, EBAY_CERT_ID, ebay_oauth_token,
                                 ebay_token_expiry, now, tokResp) :
        LET found == search_ebay_browse(EBAY_APP_ID, EBAY_CERT_ID, ebay_oauth_token,
                                        ebay_token_expiry, now, sold, limit, tokResp, resp)
        IN  /\ ebay_oauth_token' = found.auth.tok
            /\ ebay_token_expiry' = found.auth.exp
            /\ api' = [called |-> TRUE, op |-> "search_ebay_browse", sold |-> sold,
                       limit |-> limit, requested |-> found.requested,
                       request_limit |-> found.request_limit,
                       listed |-> found.requested /\ resp.items_kind = "list",
                       records |-> resp.items,
                       raised |-> found.raised, is_none |-> found.is_none,
                       items |-> found.items, error |-> found.error]
            /\ api' # api
    /\ UNCHANGED <<EBAY_APP_ID, EBAY_CERT_ID, now, said, lastAuth, lastExchange, lastFetch>>
    /\ UNCHANGED <<ledgerVars, concVars, calcVars>>
    /\ UNCHANGED <<stats, filter_settings, searchVars, lastLoad, rec, debug_info>>

NextBrowse == SearchBrowse

SpecBrowse == Init /\ [][NextBrowse]_vars

-----------------------------------------------------------------------------
(* Calls on an EbayAPI object *)

ApiLimits == {0, 2, 201}

\* EbayAPI.__init__ reads the three ids from the environment; set_mock_mode
\* switches mock mode.
InitApi ==
    /\ InitNoCredentials /\ InitLedger /\ InitConc /\ InitCalc
    /\ stats = NoCall /\ filter_settings = [exclude_words |-> ""] /\ InitSearches
    /\ lastLoad = NoCall /\ rec = NoCall
    /\ debug_info = [impl |-> "app", logs |-> <<>>, logged |-> 0]
    /\ api \in {[called |-> FALSE, app_id |-> a, cert_id |-> c, dev_id |-> d,
                  use_mock |-> m] :
                    a \in CredValues, c \in CredValues, d \in CredValues,
                    m \in BOOLEAN}

ApiFrame ==
    UNCHANGED <<tokenVars, ledgerVars, concVars, calcVars, stats, filter_settings,
                searchVars, lastLoad, rec, debug_info>>

ApiObject ==
    [called |-> TRUE, app_id |-> api.app_id, cert_id |-> api.cert_id,
     dev_id |-> api.dev_id, use_mock |-> api.use_mock]

\* api.fetch_items(query, sold, limit=limit)
ApiFetchItems ==
    /\ ~api.called
    /\ \E sold \in BOOLEAN, limit \in ApiLimits :
       \E tokResp \in IF api_get_oauth_token(api.use_mock, api.app_id, api.cert_id,
                                              api.dev_id, NoTokenAnswer).posted /\ ~sold
                       THEN TokenResponses ELSE {NoTokenAnswer} :
       \E resp \in IF api_fetch_items(api.use_mock, api.app_id, api.cert_id, api.dev_id,
                                       sold, 0, tokResp, NoSearchAnswer, <<>>).requested
                    THEN SearchResponses ELSE {NoSearchAnswer} :
       \E x \in WatcherSamples :
        LET w == [i \in 1 .. limit |-> x]
            r == api_fetch_items(api.use_mock, api.app_id, api.cert_id, api.dev_id,
                                 sold, limit, tokResp, resp, w)
            auth == api_get_oauth_token(api.use_mock, api.app_id, api.cert_id,
                                        api.dev_id, tokResp)
        IN  api' = ApiObject @@
                   [op |-> "fetch_items", sold |-> sold, limit |-> limit,
                    upstream |-> ApiUpstream(api.use_mock, api.app_id, api.cert_id,
                                             api.dev_id, sold, auth, resp),
                    requested |-> r.requested, request_limit |-> r.request_limit,
                    raised |-> r.raised, mocked |-> r.mocked,
                    items |-> r.items, error |-> r.error]
    /\ ApiFrame

\* The credential check of each program, on the same three ids.
CheckCredentials ==
    /\ ~api.called
    /\ \E impl \in {"app", "ebay", "ebay_api"} :
        api' = ApiObject @@
               [op |-> "check_credentials", impl |-> impl,
                ret |-> IF impl = "app"
                        THEN check_ebay_credentials(api.app_id, api.cert_id)
                        ELSE IF impl = "ebay"
                        THEN ebay_check_credentials(api.app_id, api.cert_id)
                        ELSE api_check_credentials(api.app_id, api.cert_id, api.dev_id)]
    /\ ApiFrame

NextApi == ApiFetchItems \/ CheckCredentials

SpecApi == InitApi /\ [][NextApi]_vars

-----------------------------------------------------------------------------
(* Recommending a platform *)

AvgPrices == {0, 4999, 5000, 10000, 10001}

InitRecommend ==
    /\ InitNoCredentials /\ InitLedger /\ InitConc /\ InitCalc
    /\ stats = NoCall /\ filter_settings = [exclude_words |-> ""] /\ InitSearches
    /\ lastLoad = NoCall /\ api = NoCall
    /\ debug_info = [impl |-> "app", logs |-> <<>>, logged |-> 0]
    /\ rec \in {[called |-> FALSE, category |-> c, avg_price |-> p, condition |-> k] :
                    c \in Categories \cup {"Antiques"}, p \in AvgPrices, k \in Conditions}

\* src/app.py:1593-1594
Recommend ==
    /\ ~rec.called
    /\ rec' = [called |-> TRUE, category |-> rec.category, avg_price |-> rec.avg_price,
               condition |-> rec.condition,
               result |-> get_recommended_platform(rec.category, rec.avg_price,
                                                   rec.condition)]
    /\ UNCHANGED <<tokenVars, ledgerVars, concVars, calcVars>>
    /\ UNCHANGED <<stats, filter_settings, searchVars, lastLoad, api, debug_info>>

NextRecommend == Recommend

SpecRecommend == InitRecommend /\ [][NextRecommend]_vars

-----------------------------------------------------------------------------
(* Logging *)

MaxLogs == 103

InitLog ==
    /\ InitNoCredentials /\ InitLedger /\ InitConc /\ InitCalc
    /\ stats = NoCall /\ filter_settings = [exclude_words |-> ""] /\ InitSearches
    /\ lastLoad = NoCall /\ api = NoCall /\ rec = NoCall
    /\ debug_info \in {[impl |-> i, logs |-> <<>>, logged |-> 0] : i \in {"app", "utils"}}

\* One log_debug call; the message is numbered by its place in logging order.
LogDebug ==
    /\ debug_info.logged < MaxLogs
    /\ LET message == debug_info.logged + 1
       IN  debug_info' =
            [debug_info EXCEPT
                !.logged = message,
                !.logs = IF debug_info.impl = "app"
                         THEN log_debug(debug_info.logs, message)
                         ELSE utils_log_debug(debug_info.logs, message)]
    /\ UNCHANGED <<tokenVars, ledgerVars, concVars, calcVars>>
    /\ UNCHANGED <<stats, filter_settings, searchVars, lastLoad, api, rec>>

NextLog == LogDebug

SpecLog == InitLog /\ [][NextLog]_vars

-----------------------------------------------------------------------------
(* Claims about the token cache and the fetcher *)

FailedUpstream ==
    {"no_credentials", "token_failure", "transport", "status", "malformed_body",
     "malformed_records"}

\* C1: fetch_items never raises, and whenever credentials are missing or the
\* upstream search fails (token failure, transport error, non-200 status,
\* malformed payload) it returns exactly `limit` items, every one with an id
\* that starts with "mock-".
C1_FallbackIsLimitMockItems ==
    lastFetch.called =>
        /\ ~lastFetch.raised
        /\ lastFetch.upstream \in FailedUpstream =>
            /\ Len(lastFetch.items) = lastFetch.limit
            /\ \A i \in 1 .. Len(lastFetch.items) :
                lastFetch.items[i].id.prefix = "mock-"

\* C5: ensure_oauth_token returns the cached token without a token exchange
\* when a token is cached and the time is strictly before the cached expiry;
\* in every other state it makes exactly one exchange and returns its result.
C5_CachedOrOneExchange ==
    lastAuth.called =>
        IF Truthy(lastAuth.tok0) /\ lastAuth.t < lastAuth.exp0
        THEN /\ lastAuth.exchanges = 0
             /\ ~lastExchange.called
             /\ lastAuth.token = lastAuth.tok0
             /\ lastAuth.error = None
        ELSE /\ lastAuth.exchanges = 1
             /\ lastExchange.called
             /\ lastAuth.token = lastExchange.token
             /\ lastAuth.error = lastExchange.error

C5_CachedTokenReturned ==
    /\ lastAuth.called
    /\ lastAuth.exchanges = 0
    /\ lastAuth.token = lastAuth.tok0
    /\ lastAuth.t > 100

\* C6: a token handed out from the cache is handed out at least 300 s before
\* the instant the marketplace said it expires, and from that instant minus
\* 300 s on the cached token is not handed out: the call refreshes it.
C6_HandedOutBeforeMargin ==
    (lastAuth.called /\ lastAuth.said0.known) =>
        /\ lastAuth.exchanges = 0 => lastAuth.t + 300 <= lastAuth.said0.at
        /\ (Truthy(lastAuth.tok0) /\ lastAuth.t >= lastAuth.said0.at - 300)
            => lastAuth.exchanges = 1

C6_RefreshedAtMargin ==
    /\ lastAuth.called
    /\ lastAuth.said0.known
    /\ Truthy(lastAuth.tok0)
    /\ lastAuth.t = lastAuth.said0.at - 300
    /\ lastAuth.exchanges = 1

\* C7: the token exchange never raises, and of the pair it returns exactly one
\* element is non-null: (token, None) on success, (None, message) on failure.
C7_ExchangeReturnsTokenOrError ==
    lastExchange.called =>
        /\ ~lastExchange.raised
        /\ (lastExchange.token # None) # (lastExchange.error # None)

\* C21: EbayAPI.fetch_items of ebay_api.py, with mock mode switched off, never
\* raises and returns `limit` synthetic items on every failure of the upstream
\* path (missing credentials, token error, non-200 status, transport
\* exception, malformed body), for sold queries as well as active queries.
C21_ApiFallbackIsLimitMockItems ==
    (api.called /\ api.op = "fetch_items" /\ ~api.use_mock) =>
        /\ ~api.raised
        /\ api.upstream \in {"no_credentials", "token_failure", "status", "transport",
                             "malformed_body"} =>
            /\ Len(api.items) = api.limit
            /\ \A i \in 1 .. Len(api.items) : api.items[i].id.prefix = "mock-"

\* C24: every search request sent to the marketplace carries a limit of at
\* most 200: a caller's limit above 200 is clamped to 200 and the request is
\* still made.
C24_RequestLimitAtMost200 ==
    (api.called /\ api.op \in {"fetch_items", "search_ebay_browse"}
        /\ api.requested) =>
        api.request_limit = PyMin(api.limit, 200)

\* C26: the credential check returns true iff app-id and cert-id are both
\* present and non-empty; the dev-id never changes the result, in every
\* implementation of the check.
C26_CredentialCheckIgnoresDevId ==
    (api.called /\ api.op = "check_credentials") =>
        api.ret = (/\ api.app_id # None /\ api.app_id # ""
                   /\ api.cert_id # None /\ api.cert_id # "")

\* C25: every item returned by a sold-item fetch has watchers = 0, whether it
\* was mapped from a marketplace record or generated synthetically; active
\* synthetic items have a watcher count in 0..20.
C25_SoldItemsHaveNoWatchers ==
    lastFetch.called =>
        \A i \in 1 .. Len(lastFetch.items) :
            /\ lastFetch.sold => lastFetch.items[i].watchers = 0
            /\ lastFetch.mocked => lastFetch.items[i].watchers \in 0 .. 20

\* C27: when a marketplace response holds records that cannot be converted to
\* an Item, search_ebay_browse skips exactly those records and returns one
\* Item for every other record, in response order; the search does not fail.
C27_UnconvertibleRecordsSkipped ==
    (api.called /\ api.op = "search_ebay_browse" /\ api.listed
        /\ api.records # <<>>) =>
        LET kept == SelectSeq(api.records, LAMBDA r : r.convertible)
        IN  /\ ~api.raised /\ ~api.is_none
            /\ Len(api.items) = Len(kept)
            /\ \A k \in 1 .. Len(kept) :
                    /\ api.items[k].id.n = kept[k].itemId
                    /\ api.items[k].title = kept[k].title
                    /\ api.items[k].sold = api.sold

C27_OneSkippedOneKept ==
    /\ api.called /\ api.op = "search_ebay_browse" /\ api.listed
    /\ Len(api.records) = 2
    /\ ~api.records[1].convertible
    /\ Len(api.items) = 1

\* C29: a token exchange that ends with an error result leaves the cached
\* token and the cached expiry unchanged; the two cached fields change only
\* together, in an exchange that returns a token.
C29_FailedExchangeLeavesCache ==
    lastExchange.called =>
        /\ lastExchange.error # None =>
            /\ lastExchange.tok1 = lastExchange.tok0
            /\ lastExchange.exp1 = lastExchange.exp0
        /\ (lastExchange.tok1 # lastExchange.tok0
                \/ lastExchange.exp1 # lastExchange.exp0) =>
            lastExchange.token = lastExchange.tok1

-----------------------------------------------------------------------------
(* Claims about the flip ledger *)

RowOf(data) == to_csv(<<Stamped(data)>>)[1]

\* C2: the flip store is append-only: after every save_flip call, successful
\* or failed, also when reading the existing file fails, the stored rows are
\* the rows stored before or those rows with the new record appended.
C2_AppendOnly ==
    lastSave.called =>
        \/ flipsFile.rows = lastSave.before.rows
        \/ flipsFile.rows = Append(lastSave.before.rows, RowOf(lastSave.data))

\* C3: after save_flip(record) returned True, load_flips() holds a row with a
\* populated timestamp whose every other field equals the record's field.
C3_RoundTrip ==
    (lastSave.called /\ lastSave.ret) =>
        \E i \in 1 .. Len(load_flips(flipsFile, FALSE)) :
            LET row == load_flips(flipsFile, FALSE)[i]
            IN  /\ row["timestamp"].kind = "str" /\ row["timestamp"].text # ""
                /\ \A c \in {"title", "cost", "notes"} : PyEq(row[c], lastSave.data[c])

\* The cell that a stored field is read as.
SameField(cell, text) ==
    IF text = "" THEN cell.kind = "nan"
    ELSE IF cell.kind = "num" THEN FloatText(cell.text) = FloatText(text)
    ELSE cell.kind = "str" /\ cell.text = text

C23_FailedSaveKeepsStore ==
    (lastSave.called /\ lastSave.write # "ok") =>
        /\ lastSave.ret = FALSE
        /\ flipsFile = lastSave.before

\* C4: when two save_flip calls run at once and both return True, the store
\* afterwards holds both new records, each complete, and every row stored
\* before.
C4_ConcurrentAppendsKept ==
    (\A p \in Sessions : pc[p] = "done" /\ saved[p]) =>
        /\ Len(flipsFile.rows) = Len(stored0.rows) + 2
        /\ SubSeq(flipsFile.rows, 1, Len(stored0.rows)) = stored0.rows
        /\ \A p \in Sessions : \E i \in 1 .. Len(flipsFile.rows) :
            flipsFile.rows[i] = RowOf(flip[p])

-----------------------------------------------------------------------------
(* Claims about the profit calculators *)

\* The fee rate that C8 states: the category's rate on eBay (0.13 for a
\* category the table does not hold), one flat rate on every other platform.
StatedRate(platform, category) ==
    IF platform = "eBay"
    THEN IF category \in {"Electronics", "Home & Garden"} THEN 120
         ELSE IF category \in {"Collectibles", "Toys"} THEN 125
         ELSE IF category = "Books" THEN 145
         ELSE 130
    ELSE IF platform = "Facebook Marketplace" THEN 50
    ELSE IF platform = "Craigslist" THEN 0
    ELSE IF platform = "Etsy" THEN 65
    ELSE IF platform = "Amazon" THEN 150
    ELSE 100

C9_RoiNeverDividesByZero ==
    calc.called =>
        /\ ~calc.roi.raised
        /\ calc.form.your_cost = 0 => calc.roi.num = 0
        /\ calc.form.your_cost > 0 =>
            LET cost == IF calc.op = "stats" THEN calc.form.your_cost
                        ELSE calc.form.your_cost * 1000
            IN  calc.roi.num = calc.net_profit * 100 /\ calc.roi.den = cost

C9_ZeroCost ==
    /\ calc.called /\ calc.op = "app"
    /\ calc.form.your_cost = 0
    /\ calc.net_profit > 0
    /\ calc.roi = Zero

\* C10: for every cost > 0 the recommended price max(target * 0.95, cost * 1.3)
\* is never less than cost * 1.3.
C10_PriceAtLeastCostFloor ==
    (calc.called /\ calc.op = "app" /\ calc.form.your_cost > 0) =>
        calc.price_rec >= calc.form.your_cost * 260

C10_FloorDecides ==
    /\ calc.called /\ calc.op = "app"
    /\ calc.form.your_cost > 0
    /\ calc.form.median_price > calc.form.avg_price
    /\ (calc.form.median_price + calc.form.avg_price) * 95 < calc.form.your_cost * 260
    /\ calc.price_rec = calc.form.your_cost * 260

\* C11: for every cost > 0, selling at the recommended price gives an ROI of
\* at least 30% by the calculator's own ROI formula.
C11_RecommendedPriceEarns30 ==
    (/\ calc.called /\ calc.op = "app"
     /\ calc.form.your_cost > 0
     /\ calc.form.selling_price * 200 = calc.price_rec)
    => /\ ~calc.roi.raised
       /\ calc.roi.num >= 30 * calc.roi.den

-----------------------------------------------------------------------------
(* Claims about what a search hands on *)

\* The comma-separated terms of an "Exclude Words" value, in lower case.
ExcludedTerms(words) ==
    IF words = "vintage" THEN {"vintage"} ELSE {}

\* The words of a title, in lower case.
TitleWords(title) ==
    IF title = "Vintage Camera" THEN {"vintage", "camera"}
    ELSE IF title = "Digital Camera" THEN {"digital", "camera"}
    ELSE IF title = "Mock Item - Demo Product" THEN {"mock", "item", "demo", "product"}
    ELSE {}

Excluded(item, words) == TitleWords(item.title) \cap ExcludedTerms(words) # {}

\* C17: for every search run with a non-empty exclude_words filter, no item
\* that reaches the statistics and display steps has a title containing an
\* excluded term (case-insensitively), and every fetched item whose title
\* contains none of them is kept.
C17_ExcludedTitlesDropped ==
    (lastFetch.called /\ lastFetch.filters.exclude_words # "") =>
        /\ \A i \in 1 .. Len(lastFetch.shown) :
            ~Excluded(lastFetch.shown[i], lastFetch.filters.exclude_words)
        /\ \A i \in 1 .. Len(lastFetch.items) :
            ~Excluded(lastFetch.items[i], lastFetch.filters.exclude_words)
                => \E j \in 1 .. Len(lastFetch.shown) :
                        lastFetch.shown[j] = lastFetch.items[i]

\* C20: whenever fetch_items returns synthetic items in place of marketplace
\* data, the second element of its result is a non-empty advisory message.
C20_SyntheticItemsComeWithAdvisory ==
    (lastFetch.called /\ lastFetch.mocked /\ Len(lastFetch.items) > 0) =>
        (lastFetch.error # None /\ lastFetch.error # "")

-----------------------------------------------------------------------------
(* Claims about the platform recommendation *)

\* The stated rules, in order: <<the rule applies, its platform>>.
StatedRules(category, avg_price, condition) ==
    << <<category = "Electronics" /\ avg_price > 10000, "eBay">>,
       <<category = "Home & Garden" /\ avg_price < 5000, "Facebook Marketplace">>,
       <<category = "Clothing" /\ condition \notin {"new", "New", "NEW"},
         "Facebook Marketplace">>,
       <<category = "Collectibles", "eBay">>,
       <<category = "Books", "Amazon">> >>

\* C28: get_recommended_platform returns the platform of the first stated rule
\* that matches (category, average sold price, condition), and eBay with the
\* general reason when none matches.
C28_FirstMatchingRule ==
    rec.called =>
        LET rules == StatedRules(rec.category, rec.avg_price, rec.condition)
            matching == {i \in 1 .. Len(rules) : rules[i][1]}
        IN  IF matching = {}
            THEN rec.result = Recommendation("eBay",
                    "General recommendation based on market size and visibility.")
            ELSE \E i \in matching :
                    /\ \A j \in matching : i <= j
                    /\ rec.result.platform = rules[i][2]
                    /\ rec.result.reason #
                        "General recommendation based on market size and visibility."

C28_NewClothingInCapitals ==
    /\ rec.called
    /\ rec.category = "Clothing" /\ rec.condition = "NEW"
    /\ rec.result.platform = "eBay"

-----------------------------------------------------------------------------
(* Claims about the debug log *)

\* C30: after any sequence of log_debug calls the debug log holds at most 100
\* messages, and they are the most recently logged ones in logging order.
C30_LogHoldsLast100 ==
    /\ Len(debug_info.logs) <= 100
    /\ \A i \in 1 .. Len(debug_info.logs) :
            debug_info.logs[i] = debug_info.logged - Len(debug_info.logs) + i

-----------------------------------------------------------------------------
(* Claims about the recent searches *)

QueryOf(entry) == IF session.program = "app" THEN entry.query ELSE entry

\* C18: after any sequence of submitted text and image searches the list holds
\* at most 10 entries, most recent first: a newly recorded search is at index
\* 0, the earlier entries follow in their previous order, and the oldest is
\* dropped when the list would exceed 10.
C18_RecentSearchesBoundedAndOrdered ==
    /\ Len(recent_searches) <= 10
    /\ session.program = "app" =>
        \A i, j \in 1 .. Len(recent_searches) :
            i < j => recent_searches[i].timestamp > recent_searches[j].timestamp
    /\ (lastSubmit.called /\ lastSubmit.recorded) =>
        /\ recent_searches[1] = lastSubmit.entry
        /\ Len(recent_searches) = PyMin(Len(lastSubmit.before) + 1, 10)
        /\ \A i \in 2 .. Len(recent_searches) :
            recent_searches[i] = lastSubmit.before[i - 1]

C18_OldestDropped ==
    /\ lastSubmit.called /\ lastSubmit.recorded
    /\ session.program = "app"
    /\ Len(lastSubmit.before) = 10
    /\ Len(recent_searches) = 10
    /\ recent_searches[1] = lastSubmit.entry
    /\ ~InList(lastSubmit.before[10], recent_searches)

\* C19: after any sequence of submitted searches, including the same query
\* submitted more than once, no two entries of the list have the same query
\* text.
C19_NoTwoEntriesWithOneQuery ==
    \A i, j \in 1 .. Len(recent_searches) :
        i # j => QueryOf(recent_searches[i]) # QueryOf(recent_searches[j])

-----------------------------------------------------------------------------
(* Claims about calculate_stats *)

StatsKeys ==
    {"count", "avg_price", "median_price", "min_price", "max_price",
     "total_value", "avg_total"}

\* C12: calculate_stats on an empty item list does not raise and returns a
\* Stats value whose count, avg_price, median_price, min_price, max_price,
\* total_value and avg_total are all 0.
C12_EmptyListAllZero ==
    (stats.called /\ stats.items = <<>>) =>
        /\ ~stats.raised
        /\ StatsKeys \subseteq DOMAIN stats.result
        /\ stats.result.count = 0
        /\ \A key \in StatsKeys \ {"count"} : stats.result[key] = FZero

\* C13: for every non-empty item list, min_price <= median_price <= max_price
\* and min_price <= avg_price <= max_price.
C13_MedianAndAverageWithinRange ==
    (stats.called /\ stats.impl = "app" /\ stats.items # <<>>) =>
        /\ FLeq(stats.result.min_price, stats.result.median_price)
        /\ FLeq(stats.result.median_price, stats.result.max_price)
        /\ FLeq(stats.result.min_price, stats.result.avg_price)
        /\ FLeq(stats.result.avg_price, stats.result.max_price)

\* The prices in cents, ascending.
RECURSIVE SortedCents(_)
SortedCents(cents) ==
    IF cents = <<>> THEN <<>>
    ELSE LET low == CHOOSE i \in 1 .. Len(cents) :
                        \A j \in 1 .. Len(cents) : cents[i] <= cents[j]
         IN  <<cents[low]>>
             \o SortedCents([j \in 1 .. Len(cents) - 1 |->
                                IF j < low THEN cents[j] ELSE cents[j + 1]])

\* C14: for every non-empty item list of length n, median_price is the element
\* at 0-based index floor(n / 2) of the prices sorted ascending; for prices
\* 10, 20, 30, 40 it is 30.
C14_MedianIsFloorIndex ==
    (stats.called /\ stats.impl = "app" /\ stats.items # <<>>) =>
        /\ stats.result.median_price
               = FromCents(SortedCents(stats.cents)[Len(stats.cents) \div 2 + 1])
        /\ SortedCents(stats.cents) = <<1000, 2000, 3000, 4000>>
               => stats.result.median_price = FromInt(30)

C14_FourPricesOutOfOrder ==
    /\ stats.called /\ stats.impl = "app"
    /\ stats.cents = <<4000, 1000, 3000, 2000>>
    /\ stats.result.median_price = FromCents(3000)

\* C15, as stated: for every item list of even length, median_price is the
\* lower of the two middle elements of the prices sorted ascending.
C15_MedianIsLowerMiddle ==
    (stats.called /\ stats.impl = "app" /\ stats.items # <<>>
     /\ Len(stats.cents) % 2 = 0) =>
        stats.result.median_price
            = FromCents(SortedCents(stats.cents)[Len(stats.cents) \div 2])

\* C15, amended: for every item list of even length, median_price is the
\* upper of the two middle elements of the prices sorted ascending (never
\* their average and never the lower one when the two differ).
C15_MedianIsUpperMiddle ==
    (stats.called /\ stats.impl = "app" /\ stats.items # <<>>
     /\ Len(stats.cents) % 2 = 0) =>
        LET lower == SortedCents(stats.cents)[Len(stats.cents) \div 2]
            upper == SortedCents(stats.cents)[Len(stats.cents) \div 2 + 1]
        IN  /\ stats.result.median_price = FromCents(upper)
            /\ lower # upper =>
                /\ stats.result.median_price # FromCents(lower)
                /\ stats.result.median_price # FDivInt(FromCents(lower + upper), 2)

C15_TwoDistinctPrices ==
    /\ stats.called /\ stats.impl = "app"
    /\ stats.cents = <<3000, 1000>>
    /\ stats.result.median_price = FromCents(3000)

\* C16: calculate_stats is total and has no side effects: for every item list
\* that a fetch can hand to it, it returns a Stats value without raising and
\* without changing (logging to) any session or stored state.
C16_StatsTotalAndPure ==
    stats.called => (~stats.raised /\ ~stats.logged)

====
